---- MODULE Spec2Model ----
(***************************************************************************)
(* Audio_to_Text.py: a Streamlit script that uploads an audio file, loads  *)
(* a cached Whisper model, transcribes a scratch copy of the upload and    *)
(* renders the result as text and as SRT subtitles.                        *)
(*                                                                         *)
(* The script is re-executed from the top on every widget interaction.     *)
(* The session part of the model has one action per widget interaction and *)
(* one action per statement of the try block (lines 98-178), so that the   *)
(* position at which a statement raises is visible.  The formatter part    *)
(* models the SRT loop (lines 153-158) over bounded segment lists, with    *)
(* strings as sequences of one-character strings.                          *)
(***************************************************************************)
EXTENDS Integers, Sequences, FiniteSets, TLC

\* ------------------------------------------------------------------ bounds
MaxRuns == 2        \* presses of the run button in one behaviour
MaxFiles == 1       \* distinct uploads the user can choose from
MaxLang == 2        \* entries of the language select box that are modelled
MaxSegs == 2        \* segments in a transcription result

\* --------------------------------------------------------------- constants
Sizes == {"tiny", "base", "small", "medium", "large"}
DefaultSize == "small"
TicksPerSecond == 10

VARIABLES
    uploaded_file,          \* 0 = None, else the id of the upload
    model_size,             \* sidebar select box
    selected_language,      \* index into list(languages.keys())
    translate_to_english,   \* sidebar check box
    last_action,            \* the widget interaction that caused this rerun
    cache,                  \* st.cache_resource store of load_whisper_model
    loads,                  \* calls of whisper.load_model made, per size
    nextHandle,             \* identity of the next object load_model returns
    disk,                   \* names of scratch files that exist
    orphaned,               \* scratch files left behind by a failed invocation
    runs,                   \* runs started so far
    pc,                     \* position of the script
    model,                  \* local: handle returned by load_whisper_model
    tmp_path,               \* local: name of the scratch file, 0 = unbound
    result,                 \* local: 0 = unbound, 1 = dict returned
    err,                    \* exception in flight or handled, "" = none
    failed_at,              \* statement that raised, "" = none
    escaped,                \* an exception left the script unhandled
    notices,                \* elements displayed on the page by this rerun
    error_message,          \* text of the st.error element
    trace,                  \* statements completed by this run, in order
    segments,               \* formatter: result["segments"]
    i,                      \* formatter: loop index of enumerate(..., 1)
    srt_output,             \* formatter: the string built so far
    fmt_pc                  \* formatter: "loop" or "done"

sessionVars == <<uploaded_file, model_size, selected_language,
                 translate_to_english, last_action, cache, loads, nextHandle,
                 disk, orphaned, runs, pc, model, tmp_path, result, err,
                 failed_at, escaped, notices, error_message, trace>>
fmtVars == <<segments, i, srt_output, fmt_pc>>
vars == <<sessionVars, fmtVars>>

Names == 1 .. MaxRuns           \* names tempfile can hand out
Terminal == {"idle", "done", "failed", "crashed"}
ErrorPrefix == "An error occurred during processing: "

\* ---------------------------------------------------------- the try block
\* Order of the statements of the try block; "done" after the last one.
NextStepDeleteLast(step) ==
    CASE step = "load"    -> "write"
      [] step = "write"   -> "invoke"
      [] step = "invoke"  -> "success"
      [] step = "unlink"  -> "done"
      [] step = "success" -> "lang"
      [] step = "lang"    -> "text"
      [] step = "text"    -> "txt"
      [] step = "txt"     -> "srt"
      [] step = "srt"     -> "segs"
      [] step = "segs"    -> "unlink"

NextStep(step) ==
    CASE step = "load"    -> "write"
      [] step = "write"   -> "invoke"
      [] step = "invoke"  -> "unlink"
      [] step = "unlink"  -> "success"
      [] step = "success" -> "lang"
      [] step = "lang"    -> "text"
      [] step = "text"    -> "txt"
      [] step = "txt"     -> "srt"
      [] step = "srt"     -> "segs"
      [] step = "segs"    -> "done"

\* A statement completed normally.
Advance(step) ==
    /\ pc' = NextStep(step)
    /\ trace' = Append(trace, step)
    /\ UNCHANGED <<err, failed_at, fmtVars>>

\* A statement raised e: control goes to the except clause.
Raise(step, e) ==
    /\ pc' = "except"
    /\ err' = e
    /\ failed_at' = step
    /\ UNCHANGED <<trace, fmtVars>>

\* except Exception: every error the statements raise is an Exception.
IsExceptionNarrow(e) == e \in {"RuntimeError", "OSError"}

IsException(e) == e \in {"RuntimeError", "OSError", "AttributeError",
                         "KeyError", "MemoryError"}

\* ------------------------------------------------------------- the script
\* One execution of the script from the top to the run button: the page is
\* rebuilt, the locals are unbound, and the try block is entered only when
\* a file is uploaded and the button reports a click.
RerunNoButton(clicked) ==
    /\ notices' = {}
    /\ error_message' = <<>>
    /\ model' = 0
    /\ tmp_path' = 0
    /\ result' = 0
    /\ err' = ""
    /\ failed_at' = ""
    /\ trace' = <<>>
    /\ IF uploaded_file' # 0 /\ runs < MaxRuns
         THEN pc' = "load" /\ runs' = runs + 1
         ELSE pc' = "idle" /\ runs' = runs
    /\ UNCHANGED <<cache, loads, nextHandle, disk, orphaned, escaped,
                   fmtVars>>

Rerun(clicked) ==
    /\ notices' = {}
    /\ error_message' = <<>>
    /\ model' = 0
    /\ tmp_path' = 0
    /\ result' = 0
    /\ err' = ""
    /\ failed_at' = ""
    /\ trace' = <<>>
    /\ IF uploaded_file' # 0 /\ clicked /\ runs < MaxRuns
         THEN pc' = "load" /\ runs' = runs + 1
         ELSE pc' = "idle" /\ runs' = runs
    /\ UNCHANGED <<cache, loads, nextHandle, disk, orphaned, escaped,
                   fmtVars>>

\* ------------------------------------------------------ widget interactions
Upload(f) ==
    /\ pc \in Terminal
    /\ uploaded_file' = f
    /\ last_action' = "upload"
    /\ UNCHANGED <<model_size, selected_language, translate_to_english>>
    /\ Rerun(FALSE)

SelectModel(s) ==
    /\ pc \in Terminal
    /\ model_size' = s
    /\ last_action' = "select_model"
    /\ UNCHANGED <<uploaded_file, selected_language, translate_to_english>>
    /\ Rerun(FALSE)

SelectLanguage(l) ==
    /\ pc \in Terminal
    /\ selected_language' = l
    /\ last_action' = "select_language"
    /\ UNCHANGED <<uploaded_file, model_size, translate_to_english>>
    /\ Rerun(FALSE)

ToggleTranslate ==
    /\ pc \in Terminal
    /\ translate_to_english' = ~translate_to_english
    /\ last_action' = "toggle_translate"
    /\ UNCHANGED <<uploaded_file, model_size, selected_language>>
    /\ Rerun(FALSE)

Download ==
    /\ pc \in Terminal
    /\ {"txt_download", "srt_download"} \cap notices # {}
    /\ last_action' = "download"
    /\ UNCHANGED <<uploaded_file, model_size, selected_language,
                   translate_to_english>>
    /\ Rerun(FALSE)

\* The button exists only while a file is uploaded.
PressRun ==
    /\ pc \in Terminal
    /\ uploaded_file # 0
    /\ runs < MaxRuns
    /\ last_action' = "run"
    /\ UNCHANGED <<uploaded_file, model_size, selected_language,
                   translate_to_english>>
    /\ Rerun(TRUE)

widgetVars == <<uploaded_file, model_size, selected_language,
                translate_to_english, last_action>>

\* ------------------------------------------------------------ model cache
\* A variant that stores nothing: every call loads again.
load_whisper_model_uncached(size) ==
    \/ /\ loads' = [loads EXCEPT ![size] = @ + 1]
       /\ model' = nextHandle
       /\ nextHandle' = nextHandle + 1
       /\ cache' = cache
       /\ Advance("load")
    \/ /\ loads' = [loads EXCEPT ![size] = @ + 1]
       /\ UNCHANGED <<cache, nextHandle, model>>
       /\ Raise("load", "RuntimeError")

\* A variant that remembers a failed load under the key.
load_whisper_model_cachefail(size) ==
    \/ /\ cache[size] # 0
       /\ model' = cache[size]
       /\ UNCHANGED <<cache, loads, nextHandle>>
       /\ Advance("load")
    \/ /\ cache[size] = 0
       /\ loads' = [loads EXCEPT ![size] = @ + 1]
       /\ model' = nextHandle
       /\ cache' = [cache EXCEPT ![size] = nextHandle]
       /\ nextHandle' = nextHandle + 1
       /\ Advance("load")
    \/ /\ cache[size] = 0
       /\ loads' = [loads EXCEPT ![size] = @ + 1]
       /\ cache' = [cache EXCEPT ![size] = -1]
       /\ UNCHANGED <<nextHandle, model>>
       /\ Raise("load", "RuntimeError")

\* @st.cache_resource: a stored handle is returned as is; otherwise
\* whisper.load_model runs, and its handle is stored only when it returns.
load_whisper_model(size) ==
    \/ /\ cache[size] # 0
       /\ model' = cache[size]
       /\ UNCHANGED <<cache, loads, nextHandle>>
       /\ Advance("load")
    \/ /\ cache[size] = 0
       /\ loads' = [loads EXCEPT ![size] = @ + 1]
       /\ model' = nextHandle
       /\ cache' = [cache EXCEPT ![size] = nextHandle]
       /\ nextHandle' = nextHandle + 1
       /\ Advance("load")
    \/ /\ cache[size] = 0
       /\ loads' = [loads EXCEPT ![size] = @ + 1]
       /\ UNCHANGED <<cache, nextHandle, model>>
       /\ Raise("load", "RuntimeError")

\* ------------------------------------------------- statements of the run
LoadModel ==
    /\ pc = "load"
    /\ load_whisper_model(model_size)
    /\ UNCHANGED <<widgetVars, disk, orphaned, runs, tmp_path, result,
                   escaped, notices, error_message>>

\* tempfile creates a file under a name that does not exist yet; the name
\* is bound to tmp_path only after the write.  A failed write may leave
\* the (delete=False) file behind.
WriteScratch ==
    /\ pc = "write"
    /\ \E n \in Names \ disk :
          \/ /\ disk' = disk \cup {n}
             /\ tmp_path' = n
             /\ Advance("write")
          \/ /\ disk' \in {disk, disk \cup {n}}
             /\ tmp_path' = tmp_path
             /\ Raise("write", "OSError")
    /\ UNCHANGED <<widgetVars, cache, loads, nextHandle, orphaned, runs,
                   model, result, escaped, notices, error_message>>

Transcribe ==
    /\ pc = "invoke"
    /\ \/ /\ result' = 1
          /\ orphaned' = orphaned
          /\ Advance("invoke")
       \/ /\ result' = result
          /\ orphaned' = orphaned \cup {tmp_path}
          /\ Raise("invoke", "RuntimeError")
    /\ UNCHANGED <<widgetVars, cache, loads, nextHandle, disk, runs, model,
                   tmp_path, escaped, notices, error_message>>

\* A variant that leaves the file in place and carries on.
UnlinkNoop ==
    /\ pc = "unlink"
    /\ disk' = disk
    /\ Advance("unlink")
    /\ UNCHANGED <<widgetVars, cache, loads, nextHandle, orphaned, runs,
                   model, tmp_path, result, escaped, notices, error_message>>

Unlink ==
    /\ pc = "unlink"
    /\ \/ /\ disk' = disk \ {tmp_path}
          /\ Advance("unlink")
       \/ /\ disk' = disk
          /\ Raise("unlink", "OSError")
    /\ UNCHANGED <<widgetVars, cache, loads, nextHandle, orphaned, runs,
                   model, tmp_path, result, escaped, notices, error_message>>

\* A statement that adds an element to the page, or raises e.
Show(step, element, e) ==
    /\ pc = step
    /\ \/ /\ notices' = notices \cup {element}
          /\ Advance(step)
       \/ /\ e # ""
          /\ notices' = notices
          /\ Raise(step, e)
    /\ UNCHANGED <<widgetVars, cache, loads, nextHandle, disk, orphaned,
                   runs, model, tmp_path, result, escaped, error_message>>

ShowSuccess == Show("success", "success", "")
ShowLanguage == Show("lang", "language", "AttributeError")
ShowText == Show("text", "text_area", "KeyError")
DownloadTxt == Show("txt", "txt_download", "KeyError")
DownloadSrt == Show("srt", "srt_download", "KeyError")
ShowSegments == Show("segs", "segments", "MemoryError")

\* A variant whose handler also removes the scratch file.
ExceptCleanup ==
    /\ pc = "except"
    /\ pc' = "failed"
    /\ notices' = notices \cup {"error", "hint"}
    /\ error_message' = <<ErrorPrefix, err>>
    /\ disk' = disk \ {tmp_path}
    /\ UNCHANGED <<widgetVars, cache, loads, nextHandle, orphaned, runs,
                   model, tmp_path, result, err, failed_at, escaped, trace,
                   fmtVars>>

\* except Exception as e: st.error(f"... {e}"); st.info(...)
Except ==
    /\ pc = "except"
    /\ IF IsException(err)
         THEN /\ pc' = "failed"
              /\ notices' = notices \cup {"error", "hint"}
              /\ error_message' = <<ErrorPrefix, err>>
              /\ escaped' = escaped
         ELSE /\ pc' = "crashed"
              /\ escaped' = TRUE
              /\ UNCHANGED <<notices, error_message>>
    /\ UNCHANGED <<widgetVars, cache, loads, nextHandle, disk, orphaned,
                   runs, model, tmp_path, result, err, failed_at, trace,
                   fmtVars>>

\* ------------------------------------------------------------ specification
InitSession ==
    /\ uploaded_file = 0
    /\ model_size = DefaultSize
    /\ selected_language = 1
    /\ translate_to_english = FALSE
    /\ last_action = "none"
    /\ cache = [s \in Sizes |-> 0]
    /\ loads = [s \in Sizes |-> 0]
    /\ nextHandle = 1
    /\ disk = {}
    /\ orphaned = {}
    /\ runs = 0
    /\ pc = "idle"
    /\ model = 0
    /\ tmp_path = 0
    /\ result = 0
    /\ err = ""
    /\ failed_at = ""
    /\ escaped = FALSE
    /\ notices = {}
    /\ error_message = <<>>
    /\ trace = <<>>

InitFmtIdle ==
    /\ segments = <<>>
    /\ i = 1
    /\ srt_output = <<>>
    /\ fmt_pc = "done"

Init == InitSession /\ InitFmtIdle

Next ==
    \/ \E f \in 0 .. MaxFiles : Upload(f)
    \/ \E s \in Sizes : SelectModel(s)
    \/ \E l \in 1 .. MaxLang : SelectLanguage(l)
    \/ ToggleTranslate
    \/ Download
    \/ PressRun
    \/ LoadModel
    \/ WriteScratch
    \/ Transcribe
    \/ Unlink
    \/ ShowSuccess
    \/ ShowLanguage
    \/ ShowText
    \/ DownloadTxt
    \/ DownloadSrt
    \/ ShowSegments
    \/ Except

Spec == Init /\ [][Next]_vars

\* ============================================================ formatter
\* Strings are sequences of one-character strings; times are counted in
\* ticks of 1/TicksPerSecond second so that int() has something to truncate.
NL == <<"\n">>
Arrow == <<" ", "-", "-", ">", " ">>
Whitespace == {" ", "\n", "\t"}

Times == {0, 599, 650, 36000}           \* 0 s, 59.9 s, 65 s, 3600 s
Durations == {5, 50}                    \* 0.5 s, 5 s
Texts == {<<"h", "i">>, <<" ", "h", "i">>, <<" ", "a", " ", "b", " ">>}
Segments == [start : Times, end : {t + d : t \in Times, d \in Durations},
             text : Texts]
WellFormed(seg) == seg.end - seg.start \in Durations
SegLists == UNION {[1 .. n -> {seg \in Segments : WellFormed(seg)}]
                   : n \in 0 .. MaxSegs}

DigitChar(d) == <<"0", "1", "2", "3", "4", "5", "6", "7", "8", "9">>[d + 1]

RECURSIVE Str(_)
\* str(n) of a non-negative int
Str(n) == IF n < 10 THEN <<DigitChar(n)>>
          ELSE Append(Str(n \div 10), DigitChar(n % 10))

\* format spec ":02": zero-padded to a width of at least two
Fmt02(n) == IF n < 10 THEN <<"0">> \o Str(n) ELSE Str(n)

\* int(t // 60) and int(t % 60) of a float t >= 0 given in ticks
IntFloorDiv60(t) == ((t \div (60 * TicksPerSecond)) * TicksPerSecond)
                        \div TicksPerSecond
IntMod60(t) == (t % (60 * TicksPerSecond)) \div TicksPerSecond

\* f"{int(t//60):02}:{int(t%60):02}:00"
Stamp(t) == Fmt02(IntFloorDiv60(t)) \o <<":">> \o Fmt02(IntMod60(t))
                \o <<":", "0", "0">>

RECURSIVE lstrip(_)
lstrip(s) == IF s # <<>> /\ Head(s) \in Whitespace THEN lstrip(Tail(s)) ELSE s

RECURSIVE rstrip(_)
rstrip(s) == IF s # <<>> /\ s[Len(s)] \in Whitespace
               THEN rstrip(SubSeq(s, 1, Len(s) - 1)) ELSE s

\* str.strip()
strip(s) == rstrip(lstrip(s))

\* A variant that numbers the blocks from 0 (enumerate without a start).
BlockFromZero(k, seg) ==
    Str(k - 1) \o NL \o Stamp(seg.start) \o Arrow \o Stamp(seg.end) \o NL
        \o strip(seg.text) \o NL \o NL

\* f"{i}\n{start stamp} --> {end stamp}\n{text}\n\n"
Block(k, seg) ==
    Str(k) \o NL \o Stamp(seg.start) \o Arrow \o Stamp(seg.end) \o NL
        \o strip(seg.text) \o NL \o NL

\* One iteration of: for i, seg in enumerate(result["segments"], 1)
SrtLoopBody ==
    /\ fmt_pc = "loop"
    /\ i <= Len(segments)
    /\ srt_output' = srt_output \o Block(i, segments[i])
    /\ i' = i + 1
    /\ UNCHANGED <<segments, fmt_pc, sessionVars>>

\* The loop is exhausted; srt_output is handed to the download button.
SrtLoopEnd ==
    /\ fmt_pc = "loop"
    /\ i > Len(segments)
    /\ fmt_pc' = "done"
    /\ UNCHANGED <<segments, i, srt_output, sessionVars>>

InitFmt ==
    /\ segments \in SegLists
    /\ i = 1
    /\ srt_output = <<>>
    /\ fmt_pc = "loop"

NextFmt ==
    \/ SrtLoopBody
    \/ SrtLoopEnd

InitFormatter == InitSession /\ InitFmt

SpecFmt == InitFormatter /\ [][NextFmt]_vars

\* ================================================================ claims
Completed(step) == \E k \in 1 .. Len(trace) : trace[k] = step
Pos(step) == CHOOSE k \in 1 .. Len(trace) : trace[k] = step
Before(a, b) == Completed(a) /\ Completed(b) /\ Pos(a) < Pos(b)

\* C1: whichever statement of a run raises, the except clause handles it:
\* the run ends in "failed" with the error element on the page, its message
\* carrying the text of the error raised, and no error leaves the script.
ErrorsCaught ==
    [][(pc = "except") =>
          /\ pc' = "failed"
          /\ "error" \in notices'
          /\ error_message' = <<ErrorPrefix, err>>
          /\ err # ""
          /\ ~escaped']_vars

ErrorsCaughtWitness ==
    /\ pc = "failed"
    /\ failed_at = "srt"
    /\ "error" \in notices
    /\ error_message = <<ErrorPrefix, "KeyError">>

\* C2: the script leaves its resting positions, calls whisper.load_model,
\* touches the scratch directory or obtains a result only in a rerun caused
\* by the run button while a file is uploaded; a rerun caused by an upload
\* or an option change ends idle with cache, load count and disk untouched.
RunOnlyOnButton ==
    [][/\ (pc' \notin Terminal) => (last_action' = "run" /\ uploaded_file' # 0)
       /\ (pc \in Terminal /\ pc' \notin Terminal) =>
             (last_action' = "run" /\ uploaded_file # 0 /\ pc' = "load")
       /\ (last_action' # "run") =>
             /\ pc' = "idle"
             /\ cache' = cache
             /\ loads' = loads
             /\ disk' = disk
             /\ result' = 0]_vars

RunOnlyOnButtonWitness ==
    /\ uploaded_file # 0
    /\ last_action = "select_model"
    /\ model_size # DefaultSize
    /\ pc = "idle"
    /\ runs = 0
    /\ \A s \in Sizes : loads[s] = 0
    /\ disk = {}

\* C3: whenever the success notice is on the page, this run has written the
\* scratch file, holds a model handle, holds the invocation's result, and
\* has deleted the scratch file, which no longer exists.
SuccessMeansAllDone ==
    ("success" \in notices) =>
        /\ Completed("write") /\ tmp_path # 0
        /\ Completed("load") /\ model # 0
        /\ Completed("invoke") /\ result = 1
        /\ Completed("unlink") /\ tmp_path \notin disk

SuccessMeansAllDoneWitness ==
    /\ pc = "done"
    /\ "success" \in notices
    /\ tmp_path # 0
    /\ tmp_path \notin disk

\* C4: every handle whisper.load_model ever returned is stored under a
\* distinct size (at most one successful load per size); once a size has a
\* stored handle, no step loads that size again or changes the stored
\* handle; and the handle a call returns is the stored one.
CacheLoadsOnce ==
    /\ [](/\ nextHandle - 1 = Cardinality({s \in Sizes : cache[s] # 0})
          /\ (model # 0) => (model = cache[model_size]))
    /\ [][\A s \in Sizes : (cache[s] # 0) =>
             (cache'[s] = cache[s] /\ loads'[s] = loads[s])]_vars

CacheLoadsOnceWitness ==
    /\ runs = 2
    /\ pc = "done"
    /\ model = 1
    /\ nextHandle = 2
    /\ \A s \in Sizes : loads[s] = IF s = model_size THEN 1 ELSE 0

\* C5: a call of load_whisper_model that raises leaves the cache as it was,
\* without an entry for the size; and a call for a size without an entry
\* always runs whisper.load_model again.
FailedLoadLeavesNoEntry ==
    [][/\ (failed_at' = "load" /\ failed_at # "load") =>
             (cache' = cache /\ cache'[model_size] = 0)
       /\ (pc = "load" /\ pc' # "load" /\ cache[model_size] = 0) =>
             loads'[model_size] = loads[model_size] + 1]_vars

FailedLoadLeavesNoEntryWitness ==
    /\ loads[model_size] = 2
    /\ cache[model_size] # 0
    /\ model = cache[model_size]
    /\ runs = 2

\* C8 as stated: scratch file written, then model obtained, then invocation,
\* then both artifacts rendered, then scratch file deleted, then results
\* displayed.
OrderAsStated ==
    (pc = "done") =>
        /\ Before("write", "load")
        /\ Before("load", "invoke")
        /\ Before("invoke", "txt")
        /\ Before("txt", "srt")
        /\ Before("srt", "unlink")
        /\ Before("unlink", "success")

\* C8 amended: in every successful run the model is obtained first, then the
\* scratch file is written, the invocation runs, the scratch file is
\* deleted, the success notice, language and transcript are displayed, the
\* TXT and then the SRT artifact are rendered, and the segment list is shown.
OrderInCode ==
    (pc = "done") =>
        trace = <<"load", "write", "invoke", "unlink", "success", "lang",
                  "text", "txt", "srt", "segs">>

OrderInCodeWitness ==
    /\ pc = "done"
    /\ Len(trace) = 10
    /\ {"success", "txt_download", "srt_download"} \subseteq notices

\* C9: when the invocation raises, the scratch file written by that run is
\* still on disk in the failed state, and a scratch file left behind this
\* way stays on disk through every later step and run.
ScratchLeftBehind ==
    /\ (failed_at = "invoke") =>
          (tmp_path # 0 /\ tmp_path \in disk /\ tmp_path \in orphaned)
    /\ orphaned \subseteq disk

ScratchLeftBehindWitness ==
    /\ orphaned # {}
    /\ runs = 2
    /\ pc = "done"
    /\ Completed("unlink")

\* C10: the success notice and the error notice are never on the page
\* together, and no download button is on a page that shows the error.
DoneXorFailed ==
    /\ ~({"success", "error"} \subseteq notices)
    /\ ("error" \in notices) =>
          ({"txt_download", "srt_download"} \cap notices = {})

\* ------------------------------------------------------ formatter claims
RECURSIVE SplitLines(_, _, _)
\* the lines of s, each terminated by a newline
SplitLines(s, cur, acc) ==
    IF s = <<>> THEN (IF cur = <<>> THEN acc ELSE Append(acc, cur))
    ELSE IF Head(s) = "\n" THEN SplitLines(Tail(s), <<>>, Append(acc, cur))
    ELSE SplitLines(Tail(s), Append(cur, Head(s)), acc)

Lines == SplitLines(srt_output, <<>>, <<>>)
TimeRangeLine(seg) == Stamp(seg.start) \o Arrow \o Stamp(seg.end)

\* C6 as stated: after k segments the output is k blocks of four lines, the
\* j-th being the index j, the j-th time range, the j-th segment's text and
\* an empty line.
BlocksCarryText ==
    /\ Len(Lines) = 4 * (i - 1)
    /\ \A k \in 1 .. i - 1 :
          /\ Lines[4 * k - 3] = Str(k)
          /\ Lines[4 * k - 2] = TimeRangeLine(segments[k])
          /\ Lines[4 * k - 1] = segments[k].text
          /\ Lines[4 * k] = <<>>

\* C6 amended: as above, the third line of each block being the segment's
\* text with leading and trailing whitespace removed.
BlocksCarryStrippedText ==
    /\ Len(Lines) = 4 * (i - 1)
    /\ \A k \in 1 .. i - 1 :
          /\ Lines[4 * k - 3] = Str(k)
          /\ Lines[4 * k - 2] = TimeRangeLine(segments[k])
          /\ Lines[4 * k - 1] = strip(segments[k].text)
          /\ Lines[4 * k] = <<>>
    /\ (fmt_pc = "done") => (i - 1 = Len(segments))

BlocksCarryStrippedTextWitness ==
    /\ fmt_pc = "done"
    /\ Len(segments) = 2
    /\ Len(Lines) = 8
    /\ segments[1].text # strip(segments[1].text)
    /\ segments[1] # segments[2]

\* C7: every time t is rendered as "00", floor(t/60) and floor(t) mod 60, in
\* that order, so that 65 seconds is rendered as 00:01:05.
HourMinuteSecond(t) ==
    <<"0", "0", ":">> \o Fmt02((t \div TicksPerSecond) \div 60) \o <<":">>
        \o Fmt02((t \div TicksPerSecond) % 60)

StampIsHourMinuteSecond ==
    \A k \in 1 .. i - 1 :
        Lines[4 * k - 2] = HourMinuteSecond(segments[k].start) \o Arrow
                               \o HourMinuteSecond(segments[k].end)

====
